---- MODULE Spec2Model ----
(***************************************************************************)
(* The CMS backend (Pages, Posts, Media over a relational store): the      *)
(* request handlers of controllers/*.go as actions over the committed      *)
(* store, with the GORM calls they make (First, Create, Save, Delete,      *)
(* Begin, Commit, Rollback) as operators over a transaction's working copy. *)
(***************************************************************************)
EXTENDS Integers, Sequences, FiniteSets, TLC

\* ------------------------------------------------------------------ bounds
MaxId == 2
MaxOps == 3

Ids == 1..MaxId
Tables == {"pages", "posts", "media"}

\* ------------------------------------------------------- program constants
StatusOK == 200
StatusCreated == 201
StatusBadRequest == 400
StatusNotFound == 404
StatusInternalServerError == 500

\* ------------------------------------------------------------ input values
\* The zero time.Time, and a client-supplied timestamp later than every
\* reading of the server clock within the bounds.
ZeroTime == 0
FutureTime == 2 * MaxOps + 10

NewTitles == {"", "t1"}
NewContents == {"", "c1"}
NewAuthors == {"", "w1"}
NewURLs == {"", "u1"}
NewTypes == {"", "image"}
UpdTitles == {"", "t2"}
UpdContents == {"", "c2"}
UpdAuthors == {"", "w2"}
UpdURLs == {"", "u2"}
UpdTypes == {"", "video"}

\* The :id path parameter of a Get, as the router hands it over: the decimal
\* text of an identifier, or any other text a path segment can hold.
PathParams == {ToString(i) : i \in Ids} \cup {"true"}

\* The query parameters of the List handlers.
TitleFilters == {"", "T", "2", "_"}
AuthorFilters == {"", "w1"}
TypeFilters == {"", "image", "IMAGE"}

\* A Go slice: nil (absent from the JSON body) or a sequence of elements.
NilSlice == [isNil |-> TRUE, elems |-> <<>>]
Slice(s) == [isNil |-> FALSE, elems |-> s]

\* ---------------------------------------------------------------- entities
Page(id, title, content, created, updated) ==
  [id |-> id, title |-> title, content |-> content,
   created_at |-> created, updated_at |-> updated]

Media(id, url, type, created, updated) ==
  [id |-> id, url |-> url, type |-> type,
   created_at |-> created, updated_at |-> updated]

Post(id, title, content, author, created, updated, media) ==
  [id |-> id, title |-> title, content |-> content, author |-> author,
   created_at |-> created, updated_at |-> updated, media |-> media]

\* The columns of a posts row: the struct without its Media association.
PostRow(p) ==
  [id |-> p.id, title |-> p.title, content |-> p.content, author |-> p.author,
   created_at |-> p.created_at, updated_at |-> p.updated_at]

\* Server-managed fields a client may still put in a Create body: none (the
\* zero values), an updated_at, or an id.
Extras == {[id |-> 0, created_at |-> ZeroTime, updated_at |-> ZeroTime],
           [id |-> 0, created_at |-> ZeroTime, updated_at |-> FutureTime],
           [id |-> 1, created_at |-> ZeroTime, updated_at |-> ZeroTime]}

\* A body that carries none of them.
Plain(p) == p.id = 0 /\ p.updated_at = ZeroTime

\* The bodies of the Create requests: every combination of empty and
\* non-empty required fields, the complete ones with every choice of the
\* other fields as well.
Complete2(a, b) == a # "" /\ b # ""

PagePayloads ==
  {p \in {Page(x.id, t, c, x.created_at, x.updated_at) :
            t \in NewTitles, c \in NewContents, x \in Extras} :
     Complete2(p.title, p.content) \/ Plain(p)}

MediaPayloads ==
  {p \in {Media(x.id, u, y, x.created_at, x.updated_at) :
            u \in NewURLs, y \in NewTypes, x \in Extras} :
     Complete2(p.url, p.type) \/ Plain(p)}

\* A Media reference as the integration test sends it: {"id": m}.
MediaRef(m) == Media(m, "", "", ZeroTime, ZeroTime)

MediaLists == {NilSlice, Slice(<<MediaRef(1)>>)}

PostPayloads ==
  {p \in {Post(x.id, t, c, a, x.created_at, x.updated_at, m) :
            t \in NewTitles, c \in NewContents, a \in NewAuthors,
            x \in Extras, m \in MediaLists} :
     \/ Complete2(p.title, p.content)
     \/ p.author = "" /\ Plain(p) /\ p.media = NilSlice}

\* What an Update body may carry besides the fields the handler merges: an
\* id, a created_at, and for a Post a list of Media references.
UpdExtras ==
  {[id |-> 0, created_at |-> ZeroTime, media |-> NilSlice],
   [id |-> MaxId, created_at |-> FutureTime, media |-> Slice(<<MediaRef(1)>>)]}

\* The bodies of the Update requests, chosen as those of the Creates are.
PageUpdates ==
  {p \in {Page(x.id, t, c, x.created_at, ZeroTime) :
            t \in UpdTitles, c \in UpdContents, x \in UpdExtras} :
     Complete2(p.title, p.content) \/ p.created_at = ZeroTime}

PostUpdates ==
  {p \in {Post(x.id, t, c, a, x.created_at, ZeroTime, x.media) :
            t \in UpdTitles, c \in UpdContents, a \in UpdAuthors,
            x \in UpdExtras} :
     \/ Complete2(p.title, p.content)
     \/ p.author = "" /\ p.created_at = ZeroTime}

MediaUpdates ==
  {Media(0, u, y, ZeroTime, ZeroTime) : u \in UpdURLs, y \in UpdTypes}

\* --------------------------------------------------------------- the state
VARIABLES
  db,      \* the committed store: table name -> set of rows, and post_media
  seq,     \* the next value of each table's identifier sequence
  now,     \* the server clock: the next reading of NowFunc
  reqs,    \* the requests in flight, one per worker
  workers, \* how many requests may be in flight at once
  last,    \* the request a run ends with: its input and its response
  gone,    \* <<table, id>> deleted with success and not inserted again since
  nops,    \* requests started so far
  born     \* <<table, id, created_at>> of every stored row, as it was inserted

vars == <<db, seq, now, reqs, workers, last, gone, nops, born>>


\* ------------------------------------------------------- the GORM library
Has(d, t, i) == \E r \in d[t] : r.id = i
Row(d, t, i) == CHOOSE r \in d[t] : r.id = i

NoEntity == [id |-> 0]

\* db.First(&x, id): the row whose primary key is id, or ErrRecordNotFound.
First(d, t, idp) ==
  IF Has(d, t, idp)
    THEN [found |-> TRUE, row |-> Row(d, t, idp)]
    ELSE [found |-> FALSE, row |-> NoEntity]

\* strconv.Atoi on a path parameter.
Atoi(s) ==
  IF \E i \in Ids : ToString(i) = s
    THEN [ok |-> TRUE, n |-> CHOOSE i \in Ids : ToString(i) = s]
    ELSE [ok |-> FALSE, n |-> 0]

\* The rows of table t an SQL condition holds for.
Where(d, t, sql) == IF sql = "true" THEN d[t] ELSE {}

\* db.First(&x, id) with id a string: a string that is a number is compared
\* with the primary key; any other string is the query's WHERE condition as
\* it stands, and the first row by primary key it holds for is returned.
FirstBy(d, t, param) ==
  IF Atoi(param).ok THEN First(d, t, Atoi(param).n)
  ELSE LET rows == Where(d, t, param)
       IN IF rows = {} THEN [found |-> FALSE, row |-> NoEntity]
          ELSE [found |-> TRUE,
                row |-> CHOOSE r \in rows : \A q \in rows : r.id <= q.id]

\* Preload("Media"): the media rows joined to post p, as a non-nil slice
\* ordered by primary key.
RECURSIVE SortedRows(_)
SortedRows(rows) ==
  IF rows = {} THEN <<>>
  ELSE LET m == CHOOSE r \in rows : \A q \in rows : r.id <= q.id
       IN <<m>> \o SortedRows(rows \ {m})

PreloadMedia(d, p) ==
  Slice(SortedRows({r \in d.media : <<p, r.id>> \in d.post_media}))

\* The characters of the strings above.
Chars(s) ==
  CASE s = "" -> <<>>
    [] s = "t1" -> <<"t", "1">>
    [] s = "t2" -> <<"t", "2">>
    [] s = "T" -> <<"T">>
    [] s = "2" -> <<"2">>
    [] s = "_" -> <<"_">>

Lower(c) == IF c = "T" THEN "t" ELSE c

\* text LIKE pattern, case-insensitively (ILIKE): % stands for any run of
\* characters, _ for any one character.
RECURSIVE Like(_, _)
Like(pattern, text) ==
  IF pattern = <<>> THEN text = <<>>
  ELSE IF Head(pattern) = "%"
    THEN \/ Like(Tail(pattern), text)
         \/ text # <<>> /\ Like(pattern, Tail(text))
  ELSE /\ text # <<>>
       /\ Head(pattern) = "_" \/ Lower(Head(pattern)) = Lower(Head(text))
       /\ Like(Tail(pattern), Tail(text))

\* A one-lookup-per-post Preload.
PreloadLookupsEach(posts) ==
  [i \in 1..Len(posts) |-> [table |-> "post_media", keys |-> {posts[i].id}]]

\* Preload("Media") on Find: the queries it issues for the posts found.  None
\* when no post was found; else one on post_media keyed by all the posts'
\* identifiers.
PreloadLookups(posts) ==
  IF posts = <<>> THEN <<>>
  ELSE <<[table |-> "post_media",
          keys |-> {posts[i].id : i \in 1..Len(posts)}]>>

\* Find(&xs): the rows in some order (the query has no ORDER BY).
Orders(rows) ==
  {o \in [1..Cardinality(rows) -> rows] :
     \A i, j \in 1..Cardinality(rows) : o[i] = o[j] => i = j}

\* A transaction's view: its working copy of the store, the sequences and
\* the clock, which every statement that stamps a row reads and so advances.
Session(d, s, t) == [db |-> d, seq |-> s, now |-> t]

\* autoCreateTime / autoUpdateTime on Create: only a zero field is stamped.
Stamp(v, t) == IF v = ZeroTime THEN t ELSE v

\* An INSERT that takes every identifier from the sequence's current value
\* without advancing it, and replaces the row that holds it.
InsertRowReuse(S, t, row) ==
  LET r == [row EXCEPT !.id = S.seq[t],
                       !.created_at = Stamp(row.created_at, S.now),
                       !.updated_at = Stamp(row.updated_at, S.now)]
  IN [S |-> [S EXCEPT !.now = @ + 1,
                      !.db[t] = {q \in @ : q.id # r.id} \cup {r}],
      row |-> r,
      err |-> FALSE]

\* INSERT of one row: a zero primary key takes the sequence's next value; a
\* primary key already present is a duplicate-key error.
InsertRow(S, t, row) ==
  LET auto == row.id = 0
      id == IF auto THEN S.seq[t] ELSE row.id
      r == [row EXCEPT !.id = id,
                       !.created_at = Stamp(row.created_at, S.now),
                       !.updated_at = Stamp(row.updated_at, S.now)]
      sq == IF auto THEN [S.seq EXCEPT ![t] = @ + 1] ELSE S.seq
      dup == Has(S.db, t, id)
  IN [S |-> [S EXCEPT !.seq = sq, !.now = @ + 1,
                      !.db = IF dup THEN @ ELSE [@ EXCEPT ![t] = @ \cup {r}]],
      row |-> r,
      err |-> dup]

\* INSERT ... ON CONFLICT DO UPDATE of one row: an existing primary key has
\* its stored row replaced by the one inserted.
InsertRowDoUpdate(S, t, row) ==
  LET ins == InsertRow(S, t, row)
  IN IF ins.err
       THEN [S |-> [ins.S EXCEPT !.db[t] =
                      {q \in @ : q.id # ins.row.id} \cup {ins.row}],
             row |-> ins.row,
             err |-> FALSE]
       ELSE ins

\* INSERT ... ON CONFLICT DO NOTHING of one row (the associations' upsert):
\* an existing primary key leaves the stored row as it is.
InsertRowDoNothing(S, t, row) ==
  LET ins == InsertRow(S, t, row)
  IN IF ins.err THEN [ins EXCEPT !.err = FALSE] ELSE ins

\* tx.Save(&x) of a struct with a primary key: UPDATE of every column with
\* updated_at stamped; when no row was affected, INSERT ... ON CONFLICT
\* UPDATE of the same values.
SaveRow(S, t, row) ==
  LET r == [row EXCEPT !.updated_at = S.now]
  IN [S |-> [S EXCEPT !.now = @ + 1,
                      !.db[t] = {q \in @ : q.id # r.id} \cup {r}],
      row |-> r,
      err |-> FALSE]

\* A Delete that reports success and removes nothing.
DeleteRowKeeps(S, t, row) == [S |-> S, row |-> row, err |-> FALSE]

\* A Delete whose condition is inverted: every row but x's goes.
DeleteRowOthers(S, t, row) ==
  [S |-> [S EXCEPT !.db[t] = {q \in @ : q.id = row.id}],
   row |-> row,
   err |-> FALSE]

\* A Delete that takes the association rows naming the row with it.
DeleteRowCascade(S, t, row) ==
  [S |-> [S EXCEPT !.db =
            [@ EXCEPT ![t] = {q \in @ : q.id # row.id},
                      !.post_media =
                        {j \in @ : /\ t = "media" => j[2] # row.id
                                   /\ t = "posts" => j[1] # row.id}]],
   row |-> row,
   err |-> FALSE]

\* tx.Delete(&x): DELETE of the row with x's primary key, and of nothing
\* else: the post_media rows that name it stay.  A schema whose foreign keys
\* reject the statement makes it one that fails (Fault "constraint").
DeleteRow(S, t, row) ==
  [S |-> [S EXCEPT !.db[t] = {q \in @ : q.id # row.id}],
   row |-> row,
   err |-> FALSE]

\* ------------------------------------------------------------ transactions
Call(name, ok) == [name |-> name, ok |-> ok]

\* The state of the *sql.Tx after a sequence of calls on it: Commit ends it
\* whether it succeeds or fails, Rollback ends an open one.
RECURSIVE TxState(_)
TxState(calls) ==
  IF calls = <<>> THEN "none"
  ELSE LET before == TxState(SubSeq(calls, 1, Len(calls) - 1))
           c == calls[Len(calls)]
       IN CASE c.name = "Begin" -> IF c.ok THEN "open" ELSE "invalid"
            [] c.name = "Commit" /\ before = "open" ->
                 IF c.ok THEN "committed" ELSE "aborted"
            [] c.name = "Rollback" /\ before = "open" -> "rolledback"
            [] OTHER -> before

\* The store once the handler has returned: the transaction's working copy
\* when its calls committed it, the store from before Begin otherwise.
Durable(pre, work, calls) ==
  IF TxState(calls) = "committed" THEN work ELSE pre

\* A handle that forgets the error of its Begin: the call that follows runs,
\* on the connection pool.
BeginErrorDropped == FALSE

\* tx := db.Begin() with a failing BeginTx: the handle returned carries the
\* error, and every GORM call on it returns that error without running a
\* statement.
BeginErrorSticks == TRUE

\* The calls a handler makes on its transaction, by the way it leaves the
\* transactional block.  Begin's error is not checked: the GORM call on the
\* invalid handle returns it and the handler takes its error branch.
BeginErrorCalls(name) ==
  <<Call("Begin", FALSE), Call(name, FALSE), Call("Rollback", FALSE)>>

\* An error branch that commits what the call had written before it failed.
StmtErrorCallsCommit(name) ==
  <<Call("Begin", TRUE), Call(name, FALSE), Call("Commit", TRUE)>>

\* An error branch that returns without ending the transaction.
StmtErrorCallsLeak(name) == <<Call("Begin", TRUE), Call(name, FALSE)>>

\* if err := tx.<name>(&x).Error; err != nil { tx.Rollback(); ... }
StmtErrorCalls(name) ==
  <<Call("Begin", TRUE), Call(name, FALSE), Call("Rollback", TRUE)>>

\* A handler without the deferred recover: the panic leaves the block with
\* the transaction as the failed call left it.
RecoverCallsNone(name) == <<Call("Begin", TRUE), Call(name, FALSE)>>

\* defer func() { if r := recover(); r != nil { tx.Rollback() } }()
RecoverCalls(name) ==
  <<Call("Begin", TRUE), Call(name, FALSE), Call("Rollback", TRUE)>>

\* if err := tx.Commit().Error; err != nil { ...; return }
CommitErrorCalls(name) ==
  <<Call("Begin", TRUE), Call(name, TRUE), Call("Commit", FALSE)>>

\* A success path that answers before it commits.
CommitCallsEarly(name) == <<Call("Begin", TRUE), Call(name, TRUE)>>

\* tx.Commit() succeeded: c.JSON(okStatus, x) follows.
CommitCalls(name) ==
  <<Call("Begin", TRUE), Call(name, TRUE), Call("Commit", TRUE)>>


\* c.JSON panicked after Commit: the deferred recover is still in force and
\* calls tx.Rollback() on the transaction that has been committed, which
\* returns an error and undoes nothing.
RespondPanicCalls == <<Call("Rollback", FALSE)>>

\* What the storage engine or the process may do to one request: nothing, a
\* failing lookup query, a failing Begin, SQL statement `at` failing (of
\* itself, or rejected by a constraint of the schema), a panic after SQL
\* statement `at` has run, a failing Commit, or a panic while c.JSON writes
\* the success response.
Fault(kind, at) == [kind |-> kind, at |-> at]
NoFault == Fault("none", 0)
ReadFaults == {NoFault, Fault("lookup", 0)}

\* Row i of table t is named by an association row.
Referenced(d, t, i) ==
  \E j \in d.post_media : \/ t = "posts" /\ j[1] = i
                          \/ t = "media" /\ j[2] = i

\* What the schema may do to the DELETE of row i of table t.  The handlers
\* run on whatever schema the database was given: the one AutoMigrate builds
\* for the integration tests gives post_media a foreign key to posts and to
\* media, which rejects the DELETE of a row still referenced; one without
\* them lets it through.
ConstraintFaults(d, t, i) ==
  IF Referenced(d, t, i) THEN {Fault("constraint", 1)} ELSE {}
TxFaults(n) ==
  {NoFault, Fault("begin", 0), Fault("commit", 0), Fault("respond", 0)}
    \cup {Fault(k, i) : k \in {"stmt", "panic"}, i \in 1..n}

\* The first SQL statement of a GORM call at which the call stops: the one
\* the fault hits, or one that fails by itself; 0 when all of them run.
StopAt(steps, fault) ==
  LET hit == {i \in 1..Len(steps) :
                \/ steps[i].err
                \/ fault.kind \in {"stmt", "constraint", "panic"}
                     /\ fault.at = i}
  IN IF hit = {} THEN 0 ELSE CHOOSE i \in hit : \A j \in hit : i <= j

\* The transactional block shared by every write handler:
\*   tx := db.Begin(); defer recover -> tx.Rollback();
\*   if err := tx.<name>(&x).Error; err != nil { tx.Rollback(); 500 }
\*   if err := tx.Commit().Error; err != nil { 500 }
\*   c.JSON(okStatus, x)
\* A statement that fails has no effect of its own; the ones before it have
\* theirs in the working copy.
\* `steps` are the SQL statements the GORM call runs, each with the session
\* it leaves; S0 is the session before the first.
RunTx(S0, name, steps, fault, okStatus, okBody) ==
  LET i == StopAt(steps, fault)
      injected == i > 0 /\ fault.kind \in {"stmt", "constraint"}
                        /\ fault.at = i
      panicked == i > 0 /\ ~injected /\ ~steps[i].err
      \* the session when the call stopped or returned
      work == IF i = 0 THEN steps[Len(steps)].S
              ELSE IF injected
                THEN (IF i = 1 THEN S0 ELSE steps[i - 1].S)
                ELSE steps[i].S
      End(S, status, written, body, calls) ==
        [db |-> Durable(S0.db, S.db, calls), seq |-> S.seq, now |-> S.now,
         status |-> status, written |-> written, body |-> body,
         calls |-> calls, after |-> <<>>]
  IN IF fault.kind = "begin" /\ BeginErrorSticks
       THEN End(S0, StatusInternalServerError, TRUE, NoEntity,
                BeginErrorCalls(name))
     ELSE IF i > 0 /\ ~panicked
       THEN End(work, StatusInternalServerError, TRUE, NoEntity,
                StmtErrorCalls(name))
     ELSE IF panicked
       \* the deferred recover rolls back and the handler returns without
       \* writing a response: the server answers 200 with an empty body
       THEN End(work, StatusOK, FALSE, NoEntity, RecoverCalls(name))
     ELSE IF fault.kind = "commit"
       THEN End(work, StatusInternalServerError, TRUE, NoEntity,
                CommitErrorCalls(name))
     ELSE IF fault.kind = "respond"
       \* the status and the body are on their way when c.JSON gives up
       THEN [End(work, okStatus, TRUE, okBody, CommitCalls(name))
               EXCEPT !.after = RespondPanicCalls]
     ELSE End(work, okStatus, TRUE, okBody, CommitCalls(name))

\* --------------------------------------------------------------- requests
Slots == {1, 2}
Idle == [pc |-> "idle"]
InFlight == {s \in Slots : reqs[s].pc # "idle"}
FreeSlots == {s \in Slots : s <= workers /\ reqs[s].pc = "idle"}
FreeSlot == CHOOSE s \in FreeSlots : \A q \in FreeSlots : s <= q

\* A finished request: its input, the response it wrote (`written` is false
\* when the handler returned without writing one), the calls it made on its
\* transaction, and the store as it was when the handler's last step began.
\* `old` is the row the handler's lookup had read, when it made one and went
\* on to its transaction; `after` are the calls it made on its transaction
\* once it had begun to write the response.
Response(op, t, idp, payload, fault, status, written, body, calls, pre) ==
  [op |-> op, table |-> t, idp |-> idp, payload |-> payload, fault |-> fault,
   status |-> status, written |-> written, body |-> body, calls |-> calls,
   pre |-> pre, old |-> NoEntity, after |-> <<>>]

NoLast ==
  Response("none", "none", 0, NoEntity, NoFault, 0, FALSE, NoEntity, <<>>,
           NoEntity)

\* A run is followed up to the response it records in `last`: the requests
\* before that one leave `last` empty.
Running == last = NoLast

CanStart == Running /\ nops < MaxOps /\ FreeSlots # {}

\* The identifiers table t has in store e and not in store d.
Inserted(d, e, t) == {r.id : r \in e[t]} \ {r.id : r \in d[t]}

\* `gone` after a Create took the store from d to e: the identifiers it
\* inserted are in use again.
GoneAfterCreate(d, e) ==
  gone \ UNION {{<<t, i>> : i \in Inserted(d, e, t)} : t \in Tables}

\* `gone` after a Delete of <<t, i>> answered with `status`.
GoneAfterDelete(t, i, status) ==
  IF status = StatusOK THEN gone \cup {<<t, i>>} ELSE gone

\* `born` after a step took the store from d to e: the rows that are gone
\* leave it, the rows inserted enter it with the created_at they were given.
BornAfter(d, e) ==
  {b \in born : Has(e, b[1], b[2])}
    \cup UNION {{<<t, r.id, r.created_at>> :
                   r \in {q \in e[t] : q.id \in Inserted(d, e, t)}} :
                t \in Tables}

Request(op, t, idp, payload, old, ent) ==
  [pc |-> "tx", op |-> op, table |-> t, idp |-> idp, payload |-> payload,
   old |-> old, ent |-> ent]

\* The response r is the one the run ends with, or the run goes on.
Recorded(r) == last' \in {NoLast, r}

\* A handler whose queries consume the association rows they read.
AnswerConsuming(op, t, idp, payload, fault, status, body) ==
  /\ Recorded(Response(op, t, idp, payload, fault, status, TRUE, body, <<>>,
                       db))
  /\ db' = [db EXCEPT !.post_media = {}]
  /\ nops' = nops + 1
  /\ UNCHANGED <<seq, now, reqs, workers, gone, born>>

\* A handler that answers without opening a transaction.
Answer(op, t, idp, payload, fault, status, body) ==
  /\ Recorded(Response(op, t, idp, payload, fault, status, TRUE, body, <<>>,
                       db))
  /\ nops' = nops + 1
  /\ UNCHANGED <<db, seq, now, reqs, workers, gone, born>>

\* A Create handler that ran its transactional block with result r.
Created(t, payload, fault, r) ==
  \E x \in {r} :
    /\ db' = x.db
    /\ seq' = x.seq
    /\ now' = x.now
    /\ Recorded([Response("create", t, 0, payload, fault, x.status,
                           x.written, x.body, x.calls, db)
                    EXCEPT !.after = x.after])
    /\ gone' = GoneAfterCreate(db, x.db)
    /\ born' = BornAfter(db, x.db)
    /\ nops' = nops + 1
    /\ UNCHANGED <<reqs, workers>>

\* An Update or Delete handler that found its row: the request is in flight
\* between the lookup and Begin.
Accept(rq) ==
  /\ reqs' = [reqs EXCEPT ![FreeSlot] = rq]
  /\ last' = NoLast
  /\ nops' = nops + 1
  /\ UNCHANGED <<db, seq, now, workers, gone, born>>

\* The in-flight request of worker s ran its transactional block with result r.
Complete(s, fault, r) ==
  \E x \in {r} :
    LET rq == reqs[s]
    IN /\ db' = x.db
       /\ seq' = x.seq
       /\ now' = x.now
       /\ reqs' = [reqs EXCEPT ![s] = Idle]
       /\ Recorded([Response(rq.op, rq.table, rq.idp, rq.payload, fault,
                             x.status, x.written, x.body, x.calls, db)
                      EXCEPT !.old = rq.old, !.after = x.after])
       /\ gone' = IF rq.op \in {"delete", "delete_raw"} /\ x.written
                    THEN GoneAfterDelete(rq.table, rq.ent.id, x.status)
                    ELSE gone
       /\ born' = BornAfter(db, x.db)
       /\ UNCHANGED <<workers, nops>>

\* ------------------------------------------------- the handlers' first part
\* if err := db.First(&x, id).Error; err != nil {
\*   if errors.Is(err, gorm.ErrRecordNotFound) { 404 } else { 500 } }
\* StatusOK stands for "the handler goes on".
LookupStatus(fr, f) ==
  IF f.kind = "lookup" THEN StatusInternalServerError
  ELSE IF ~fr.found THEN StatusNotFound
  ELSE StatusOK

\* The name a request is recorded under: id := c.Param("id") is handed to
\* db.First as the string it is, and a request whose parameter is no number
\* is recorded apart from those that name an identifier.
Routed(op, param) == IF Atoi(param).ok THEN op ELSE op \o "_raw"

\* An Update that binds the body before it looks the row up.
UpdateStatusBindFirst(fr, f, bound) ==
  IF ~bound THEN StatusBadRequest ELSE LookupStatus(fr, f)

\* Update: the lookup comes first, ShouldBindJSON second.
UpdateStatus(fr, f, bound) ==
  IF LookupStatus(fr, f) # StatusOK THEN LookupStatus(fr, f)
  ELSE IF ~bound THEN StatusBadRequest
  ELSE StatusOK

\* ------------------------------------------------------------------- pages
\* ShouldBindJSON(&page): binding:"required" rejects a zero Title or Content.
BindPage(p) == p.title # "" /\ p.content # ""

\* A merge that overwrites with whatever the payload holds.
PatchOverwrite(old, new) == new

\* if updateData.X != "" { existing.X = updateData.X }
Patch(old, new) == IF new # "" THEN new ELSE old

MergePage(existing, upd) ==
  [existing EXCEPT !.title = Patch(@, upd.title),
                   !.content = Patch(@, upd.content)]

\* if page.Title == "" { 400 }; if page.Content == "" { 400 }
RequiredPage(p) == p.title # "" /\ p.content # ""

GetPage ==
  \E param \in PathParams, f \in ReadFaults :
    /\ CanStart
    /\ LET fr == FirstBy(db, "pages", param)
           st == LookupStatus(fr, f)
       IN Answer("get", "pages", Atoi(param).n, [param |-> param], f, st,
                 IF st = StatusOK THEN fr.row ELSE NoEntity)

\* The columns of the pages table: the fields of the Page model.
PageColumns == DOMAIN Page(0, "", "", ZeroTime, ZeroTime)

\* query.Where("title ILIKE ?", "%"+title+"%")
PageWhere(r, title) ==
  title = "" \/ Like(<<"%">> \o Chars(title) \o <<"%">>, Chars(r.title))

\* GET /pages: the title filter and the author filter are added to the query
\* when they are set, the author one as WHERE author = ? on the pages table;
\* a query that names a column the table does not have fails in the
\* database, and Find's error is answered 500.
GetPages ==
  \E title \in TitleFilters, author \in AuthorFilters, f \in ReadFaults :
    /\ CanStart
    /\ f.kind = "lookup" => title = "" /\ author = ""
    /\ \E found \in Orders({r \in db.pages : PageWhere(r, title)}) :
         LET q == [title |-> title, author |-> author]
             unknown == author # "" /\ "author" \notin PageColumns
         IN IF f.kind = "lookup" \/ unknown
              THEN Answer("list", "pages", 0, q, f,
                          StatusInternalServerError, NoEntity)
              ELSE Answer("list", "pages", 0, q, f, StatusOK,
                          [items |-> found, lookups |-> <<>>])

CreatePage ==
  \E p \in PagePayloads, f \in TxFaults(1) :
    /\ CanStart
    /\ seq.pages <= MaxId
    /\ IF ~BindPage(p) \/ ~RequiredPage(p)
         THEN /\ f = NoFault
              /\ Answer("create", "pages", 0, p, f, StatusBadRequest, NoEntity)
         ELSE LET S0 == Session(db, seq, now)
                  ins == InsertRow(S0, "pages", p)
              IN Created("pages", p, f,
                         RunTx(S0, "Create", <<ins>>, f, StatusCreated,
                               ins.row))

UpdatePage ==
  \E param \in PathParams, p \in PageUpdates, f \in ReadFaults :
    /\ CanStart
    /\ LET fr == FirstBy(db, "pages", param)
           op == Routed("update", param)
           idp == Atoi(param).n
           st == UpdateStatus(fr, f, BindPage(p))
       IN IF st # StatusOK
            THEN Answer(op, "pages", idp, p, f, st, NoEntity)
            ELSE Accept(Request(op, "pages", idp, p, fr.row,
                                MergePage(fr.row, p)))

UpdatePageTx ==
  \E s \in InFlight, f \in TxFaults(1) :
    /\ Running
    /\ reqs[s].op \in {"update", "update_raw"} /\ reqs[s].table = "pages"
    /\ LET S0 == Session(db, seq, now)
           sv == SaveRow(S0, "pages", reqs[s].ent)
       IN Complete(s, f, RunTx(S0, "Save", <<sv>>, f, StatusOK, sv.row))

DeletePage ==
  \E param \in PathParams, f \in ReadFaults :
    /\ CanStart
    /\ LET fr == FirstBy(db, "pages", param)
           op == Routed("delete", param)
           idp == Atoi(param).n
           st == LookupStatus(fr, f)
       IN IF st # StatusOK
            THEN Answer(op, "pages", idp, NoEntity, f, st, NoEntity)
            ELSE Accept(Request(op, "pages", idp, NoEntity, fr.row,
                                fr.row))

DeletePageTx ==
  \E s \in InFlight, f \in TxFaults(1) :
    /\ Running
    /\ reqs[s].op \in {"delete", "delete_raw"} /\ reqs[s].table = "pages"
    /\ LET S0 == Session(db, seq, now)
           del == DeleteRow(S0, "pages", reqs[s].ent)
       IN Complete(s, f, RunTx(S0, "Delete", <<del>>, f, StatusOK, NoEntity))

\* ------------------------------------------------------------------- media
\* ShouldBindJSON(&media): well-formed JSON binds; the Media model carries no
\* binding rule of its own.
BindMedia(p) == TRUE

\* A Media check that looks at the URL only.
RequiredMediaURL(p) == p.url # ""

\* if media.URL == "" { 400 }; if media.Type == "" { 400 }
RequiredMedia(p) == p.url # "" /\ p.type # ""

GetMediaByID ==
  \E param \in PathParams, f \in ReadFaults :
    /\ CanStart
    /\ LET fr == FirstBy(db, "media", param)
           st == LookupStatus(fr, f)
       IN Answer("get", "media", Atoi(param).n, [param |-> param], f, st,
                 IF st = StatusOK THEN fr.row ELSE NoEntity)

CreateMedia ==
  \E p \in MediaPayloads, f \in TxFaults(1) :
    /\ CanStart
    /\ seq.media <= MaxId
    /\ IF ~BindMedia(p) \/ ~RequiredMedia(p)
         THEN /\ f = NoFault
              /\ Answer("create", "media", 0, p, f, StatusBadRequest, NoEntity)
         ELSE LET S0 == Session(db, seq, now)
                  ins == InsertRow(S0, "media", p)
              IN Created("media", p, f,
                         RunTx(S0, "Create", <<ins>>, f, StatusCreated,
                               ins.row))

\* query.Where("type = ?", mediaType) when mediaType != ""
MediaWhere(r, type) == type = "" \/ r.type = type

GetMedia ==
  \E type \in TypeFilters, f \in ReadFaults :
    /\ CanStart
    /\ f.kind = "lookup" => type = ""
    /\ \E items \in Orders({r \in db.media : MediaWhere(r, type)}) :
         IF f.kind = "lookup"
           THEN Answer("list", "media", 0, [type |-> type], f,
                       StatusInternalServerError, NoEntity)
           ELSE Answer("list", "media", 0, [type |-> type], f, StatusOK,
                       [items |-> items, lookups |-> <<>>])

\* PUT /media/:id.  The Media controller has the handlers GetMedia,
\* GetMediaByID, CreateMedia and DeleteMedia and no other: there is nothing
\* to route the request to, and the router answers it 404 without a lookup.
UpdateMedia ==
  \E idp \in Ids, p \in MediaUpdates :
    /\ CanStart
    /\ Answer("update", "media", idp, p, NoFault, StatusNotFound, NoEntity)

DeleteMedia ==
  \E param \in PathParams, f \in ReadFaults :
    /\ CanStart
    /\ LET fr == FirstBy(db, "media", param)
           op == Routed("delete", param)
           idp == Atoi(param).n
           st == LookupStatus(fr, f)
       IN IF st # StatusOK
            THEN Answer(op, "media", idp, NoEntity, f, st, NoEntity)
            ELSE Accept(Request(op, "media", idp, NoEntity, fr.row,
                                fr.row))

DeleteMediaTx ==
  \E s \in InFlight :
    \E f \in TxFaults(1) \cup ConstraintFaults(db, "media", reqs[s].ent.id) :
    /\ Running
    /\ reqs[s].op \in {"delete", "delete_raw"} /\ reqs[s].table = "media"
    /\ LET S0 == Session(db, seq, now)
           del == DeleteRow(S0, "media", reqs[s].ent)
       IN Complete(s, f, RunTx(S0, "Delete", <<del>>, f, StatusOK, NoEntity))

\* ------------------------------------------------------------------- posts
\* ShouldBindJSON(&post): binding:"required" rejects a zero Title or Content.
BindPost(p) == p.title # "" /\ p.content # ""

\* if post.Title == "" { 400 }; if post.Content == "" { 400 }
RequiredPost(p) == p.title # "" /\ p.content # ""

\* A posts row read into a Post struct, with the given Media slice.
PostStruct(row, m) ==
  Post(row.id, row.title, row.content, row.author, row.created_at,
       row.updated_at, m)

\* A merge that takes the content from the body's author field.
MergePostSwapped(existing, upd) ==
  [existing EXCEPT !.title = Patch(@, upd.title),
                   !.content = upd.author,
                   !.author = Patch(@, upd.author)]

\* A merge that also takes a created_at the body carries.
MergePostCreated(existing, upd) ==
  [existing EXCEPT !.title = Patch(@, upd.title),
                   !.content = Patch(@, upd.content),
                   !.author = Patch(@, upd.author),
                   !.created_at = IF upd.created_at # ZeroTime
                                    THEN upd.created_at ELSE @]

MergePost(existing, upd) ==
  [existing EXCEPT !.title = Patch(@, upd.title),
                   !.content = Patch(@, upd.content),
                   !.author = Patch(@, upd.author)]

\* tx.Create(&post), second statement: the Media of the association are
\* inserted in one batch, ON CONFLICT DO NOTHING.
RECURSIVE UpsertAll(_, _)
UpsertAll(S, elems) ==
  IF elems = <<>> THEN [S |-> S, rows |-> <<>>, err |-> FALSE]
  ELSE LET one == InsertRowDoNothing(S, "media", Head(elems))
           rest == UpsertAll([one.S EXCEPT !.now = S.now], Tail(elems))
       IN [S |-> rest.S, rows |-> <<one.row>> \o rest.rows, err |-> FALSE]

UpsertMedia(S, elems) ==
  LET u == UpsertAll(S, elems)
  IN [u EXCEPT !.S.now = S.now + 1]

\* tx.Create(&post), third statement: one post_media row per element,
\* ON CONFLICT DO NOTHING.
InsertJoins(S, postId, rows) ==
  [S |-> [S EXCEPT !.db.post_media =
                     @ \cup {<<postId, rows[i].id>> : i \in 1..Len(rows)}],
   err |-> FALSE]

\* The SQL statements of tx.Create(&post).
CreatePostSteps(S0, p) ==
  LET s1 == InsertRow(S0, "posts", PostRow(p))
      s2 == UpsertMedia(s1.S, p.media.elems)
      s3 == InsertJoins(s2.S, s1.row.id, s2.rows)
  IN IF p.media.elems = <<>> THEN <<s1>> ELSE <<s1, s2, s3>>

\* The Post struct after tx.Create(&post): its own columns as inserted, its
\* Media elements as the batch insert left them.
CreatedPost(S0, p) ==
  LET s1 == InsertRow(S0, "posts", PostRow(p))
      s2 == UpsertMedia(s1.S, p.media.elems)
  IN PostStruct(s1.row, IF p.media.elems = <<>> THEN p.media
                        ELSE Slice(s2.rows))

GetPost ==
  \E param \in PathParams, f \in ReadFaults :
    /\ CanStart
    /\ LET fr == FirstBy(db, "posts", param)
           st == LookupStatus(fr, f)
       IN Answer("get", "posts", Atoi(param).n, [param |-> param], f, st,
                 IF st = StatusOK
                   THEN PostStruct(fr.row, PreloadMedia(db, fr.row.id))
                   ELSE NoEntity)

\* query.Where("title ILIKE ?", "%"+title+"%") when title != "";
\* query.Where("author = ?", author) when author != ""
PostWhere(r, title, author) ==
  /\ title = ""
       \/ Like(<<"%">> \o Chars(title) \o <<"%">>, Chars(r.title))
  /\ author = "" \/ r.author = author

GetPosts ==
  \E title \in TitleFilters, author \in AuthorFilters, f \in ReadFaults :
    /\ CanStart
    /\ f.kind = "lookup" => title = "" /\ author = ""
    /\ \E found \in Orders({r \in db.posts : PostWhere(r, title, author)}) :
         LET q == [title |-> title, author |-> author]
             items == [i \in 1..Len(found) |->
                         PostStruct(found[i], PreloadMedia(db, found[i].id))]
         IN IF f.kind = "lookup"
              THEN Answer("list", "posts", 0, q, f,
                          StatusInternalServerError, NoEntity)
              ELSE Answer("list", "posts", 0, q, f, StatusOK,
                          [items |-> items,
                           lookups |-> PreloadLookups(found)])

CreatePost ==
  \E p \in PostPayloads, f \in TxFaults(3) :
    /\ CanStart
    /\ seq.posts <= MaxId
    /\ IF ~BindPost(p) \/ ~RequiredPost(p)
         THEN /\ f = NoFault
              /\ Answer("create", "posts", 0, p, f, StatusBadRequest, NoEntity)
         ELSE LET S0 == Session(db, seq, now)
                  steps == CreatePostSteps(S0, p)
              IN /\ f.at <= Len(steps)
                 /\ Created("posts", p, f,
                            RunTx(S0, "Create", steps, f, StatusCreated,
                                  CreatedPost(S0, p)))

UpdatePost ==
  \E param \in PathParams, p \in PostUpdates, f \in ReadFaults :
    /\ CanStart
    /\ LET fr == FirstBy(db, "posts", param)
           op == Routed("update", param)
           idp == Atoi(param).n
           st == UpdateStatus(fr, f, BindPost(p))
       IN IF st # StatusOK
            THEN Answer(op, "posts", idp, p, f, st, NoEntity)
            ELSE Accept(Request(op, "posts", idp, p, fr.row,
                                MergePost(PostStruct(fr.row, NilSlice), p)))

UpdatePostTx ==
  \E s \in InFlight, f \in TxFaults(1) :
    /\ Running
    /\ reqs[s].op \in {"update", "update_raw"} /\ reqs[s].table = "posts"
    /\ LET S0 == Session(db, seq, now)
           sv == SaveRow(S0, "posts", PostRow(reqs[s].ent))
       IN Complete(s, f,
                   RunTx(S0, "Save", <<sv>>, f, StatusOK,
                         PostStruct(sv.row, reqs[s].ent.media)))

DeletePost ==
  \E param \in PathParams, f \in ReadFaults :
    /\ CanStart
    /\ LET fr == FirstBy(db, "posts", param)
           op == Routed("delete", param)
           idp == Atoi(param).n
           st == LookupStatus(fr, f)
       IN IF st # StatusOK
            THEN Answer(op, "posts", idp, NoEntity, f, st, NoEntity)
            ELSE Accept(Request(op, "posts", idp, NoEntity, fr.row,
                                PostStruct(fr.row, NilSlice)))

DeletePostTx ==
  \E s \in InFlight :
    \E f \in TxFaults(1) \cup ConstraintFaults(db, "posts", reqs[s].ent.id) :
    /\ Running
    /\ reqs[s].op \in {"delete", "delete_raw"} /\ reqs[s].table = "posts"
    /\ LET S0 == Session(db, seq, now)
           del == DeleteRow(S0, "posts", reqs[s].ent)
       IN Complete(s, f, RunTx(S0, "Delete", <<del>>, f, StatusOK, NoEntity))

\* ----------------------------------------------------------- specification
Init ==
  /\ db = [pages |-> {}, posts |-> {}, media |-> {}, post_media |-> {}]
  /\ seq = [pages |-> 1, posts |-> 1, media |-> 1]
  /\ now = 1
  /\ reqs = [s \in Slots |-> Idle]
  /\ workers = 1
  /\ last = NoLast
  /\ gone = {}
  /\ nops = 0
  /\ born = {}

Next ==
  \/ GetPages
  \/ GetPage
  \/ CreatePage
  \/ UpdatePage
  \/ UpdatePageTx
  \/ DeletePage
  \/ DeletePageTx
  \/ GetMedia
  \/ GetMediaByID
  \/ CreateMedia
  \/ UpdateMedia
  \/ DeleteMedia
  \/ DeleteMediaTx
  \/ GetPosts
  \/ GetPost
  \/ CreatePost
  \/ UpdatePost
  \/ UpdatePostTx
  \/ DeletePost
  \/ DeletePostTx

\* One request at a time: every handler returns before the next one starts.
Spec == Init /\ [][Next]_vars

\* The server as gin runs it, each request on a goroutine of its own: a
\* second request may start, and finish, while a first is between its lookup
\* and its transaction.
InitConcurrent ==
  /\ db = [pages |-> {}, posts |-> {}, media |-> {}, post_media |-> {}]
  /\ seq = [pages |-> 1, posts |-> 1, media |-> 1]
  /\ now = 1
  /\ reqs = [s \in Slots |-> Idle]
  /\ workers = 2
  /\ last = NoLast
  /\ gone = {}
  /\ nops = 0
  /\ born = {}

SpecConcurrent == InitConcurrent /\ [][Next]_vars

\* -------------------------------------------------------------- properties
\* Every property reads the response the run ended with: `last` holds the
\* request, its response and the store from before the handler's last step,
\* `db` the store after it.
Observed == last # NoLast

Succeeded == last.written /\ last.status \in {StatusOK, StatusCreated}

Opened == last.calls # <<>> /\ last.calls[1] = Call("Begin", TRUE)

Same(ts) == \A u \in ts : db[u] = last.pre[u]

BodyRow == IF last.table = "posts" THEN PostRow(last.body) ELSE last.body

Others(t, i) == {q \in db[t] : q.id # i} = {q \in last.pre[t] : q.id # i}

\* The complete effect of the request on the store, read off its response.
WholeEffect ==
  CASE last.op = "create" /\ last.table = "posts" ->
         LET elems == last.body.media.elems
             ids == {elems[i].id : i \in 1..Len(elems)}
         IN /\ ~Has(last.pre, "posts", last.body.id)
            /\ db.posts = last.pre.posts \cup {BodyRow}
            /\ db.post_media =
                 last.pre.post_media \cup {<<last.body.id, m>> : m \in ids}
            /\ last.pre.media \subseteq db.media
            /\ {r.id : r \in db.media} = {r.id : r \in last.pre.media} \cup ids
            /\ Same({"pages"})
    [] last.op = "create" /\ last.table # "posts" ->
         /\ ~Has(last.pre, last.table, last.body.id)
         /\ db[last.table] = last.pre[last.table] \cup {BodyRow}
         /\ Same(DOMAIN db \ {last.table})
    [] last.op = "update" ->
         /\ Has(last.pre, last.table, last.idp)
         /\ BodyRow.id = last.idp
         /\ db[last.table] =
              {q \in last.pre[last.table] : q.id # last.idp} \cup {BodyRow}
         /\ Same(DOMAIN db \ {last.table})
    [] last.op = "delete" ->
         /\ Has(last.pre, last.table, last.idp)
         /\ db[last.table] = {q \in last.pre[last.table] : q.id # last.idp}
         /\ Same(DOMAIN db \ {last.table})
    [] OTHER -> db = last.pre

\* C1: atomicity.  After a Create, Update or Delete of a Page, Media or Post
\* the store holds the complete effect of the operation (for CreatePost the
\* post row together with all of its post_media rows) with the transaction
\* committed, or it is the store from before the operation; no state in
\* between is left behind.
Atomicity ==
  Observed /\ last.op \in {"create", "update", "delete"} =>
    IF Succeeded
      THEN TxState(last.calls) = "committed" /\ WholeEffect
      ELSE db = last.pre

\* A CreatePost whose third statement (the post_media rows) failed after the
\* post row and the media rows had been written.
AtomicityWitness ==
  /\ last.op = "create" /\ last.table = "posts"
  /\ last.fault = Fault("stmt", 3)
  /\ last.status = StatusInternalServerError
  /\ db = last.pre

InvalidCreate ==
  /\ last.op = "create"
  /\ IF last.table = "media"
       THEN last.payload.url = "" \/ last.payload.type = ""
       ELSE last.payload.title = "" \/ last.payload.content = ""

\* C4: a Create with an empty or missing required field (title or content
\* for Page/Post, url or type for Media) answers 400, opens no transaction
\* and leaves every table's rows as they were.
CreateValidation ==
  Observed /\ InvalidCreate =>
    /\ last.written /\ last.status = StatusBadRequest
    /\ last.calls = <<>>
    /\ db = last.pre

\* A Create Media with a URL and no type, answered 400.
CreateValidationWitness ==
  /\ last.op = "create" /\ last.table = "media"
  /\ last.payload.url # "" /\ last.payload.type = ""
  /\ last.status = StatusBadRequest

MissingTarget ==
  /\ last.op \in {"update", "delete"}
  /\ ~Has(last.pre, last.table, last.idp)
  /\ last.fault.kind # "lookup"

GetAfterDelete ==
  Observed /\ last.op = "get" /\ <<last.table, last.idp>> \in gone
           /\ last.fault.kind # "lookup" =>
    last.written /\ last.status = StatusNotFound

\* A Get on a deleted identifier, answered 404.
GetAfterDeleteWitness ==
  /\ last.op = "get"
  /\ <<last.table, last.idp>> \in gone
  /\ last.status = StatusNotFound

\* C7: of two Deletes in sequence on the same existing identifier the first
\* answers success and removes the row, the second answers 404 and leaves
\* the store as the first left it.
DeleteTwice ==
  Observed /\ last.op = "delete" /\ last.fault = NoFault =>
    IF Has(last.pre, last.table, last.idp)
      THEN /\ last.written /\ last.status = StatusOK
           /\ ~Has(db, last.table, last.idp)
           /\ <<last.table, last.idp>> \in gone
      ELSE <<last.table, last.idp>> \in gone =>
             /\ last.written /\ last.status = StatusNotFound
             /\ db = last.pre

\* The second Delete on an identifier: 404, the store untouched.
DeleteTwiceWitness ==
  /\ last.op = "delete"
  /\ <<last.table, last.idp>> \in gone
  /\ ~Has(last.pre, last.table, last.idp)
  /\ last.status = StatusNotFound
  /\ db = last.pre

\* C8 as stated: an Update of an existing Post or Page whose body holds a
\* title and no content succeeds and returns the entity with the title
\* overwritten.
TitleOnlyUpdate ==
  Observed /\ last.op = "update" /\ last.table \in {"pages", "posts"}
           /\ last.fault = NoFault
           /\ Has(last.pre, last.table, last.idp)
           /\ last.payload.title # "" /\ last.payload.content = "" =>
    Succeeded /\ last.body.title = last.payload.title

Merged(new, old, given) == IF given # "" THEN new = given ELSE new = old

\* C9: after a successful Update each mutable field (title, content, and
\* author for a Post) of the stored and of the returned entity is the
\* payload's value when that is non-empty and the value stored before when
\* it is empty or omitted; of the row's other fields only updated_at may
\* differ, and no other row changes.
UpdateMerges ==
  Observed /\ last.op = "update" /\ Succeeded =>
    /\ Has(last.pre, last.table, last.idp)
    /\ Has(db, last.table, last.idp)
    /\ LET old == Row(last.pre, last.table, last.idp)
           new == Row(db, last.table, last.idp)
       IN /\ BodyRow = new
          /\ Merged(new.title, old.title, last.payload.title)
          /\ Merged(new.content, old.content, last.payload.content)
          /\ last.table = "posts" =>
               Merged(new.author, old.author, last.payload.author)
          /\ new.id = old.id
          /\ new.created_at = old.created_at
    /\ Others(last.table, last.idp)
    /\ Same(DOMAIN db \ {last.table})

\* A successful Update of a Post without an author in its body: the stored
\* author is kept, the title is the payload's.
UpdateMergesWitness ==
  /\ last.op = "update" /\ last.table = "posts" /\ Succeeded
  /\ last.payload.author = ""
  /\ Row(last.pre, "posts", last.idp).author # ""
  /\ last.body.author = Row(last.pre, "posts", last.idp).author
  /\ last.body.title = last.payload.title

\* C10 as stated: every successful Update leaves the entity's stored
\* updated_at greater than it was before the Update.
UpdatedAtIncreases ==
  Observed /\ last.op = "update" /\ Succeeded
           /\ Has(last.pre, last.table, last.idp)
           /\ Has(db, last.table, last.idp) =>
    Row(db, last.table, last.idp).updated_at
      > Row(last.pre, last.table, last.idp).updated_at

\* C11 as stated: the entity a Create returns, whatever extra fields (id,
\* created_at, updated_at) its valid payload carried, has a non-zero
\* identifier and created_at equal to updated_at.
CreateStamps ==
  Observed /\ last.op = "create" /\ Succeeded =>
    /\ last.body.id # 0
    /\ last.body.created_at = last.body.updated_at

\* C12: the created_at of a stored entity is the one it was inserted with:
\* no sequence of Updates, whatever their payloads (a created_at among them),
\* changes it.
CreatedAtFixed ==
  \A t \in Tables : \A r \in db[t] : <<t, r.id, r.created_at>> \in born

\* A successful Update whose body carried a created_at: the stored one is not
\* the body's.
CreatedAtFixedWitness ==
  /\ last.op = "update" /\ Succeeded
  /\ last.payload.created_at = FutureTime
  /\ Has(db, last.table, last.idp)
  /\ Row(db, last.table, last.idp).created_at # FutureTime
  /\ Row(db, last.table, last.idp).created_at
       = Row(last.pre, last.table, last.idp).created_at

\* C13: in every reachable store every stored Page and every stored Post has
\* a non-empty title and a non-empty content, whatever Creates, Updates and
\* Deletes came before.
TitleContentNonEmpty ==
  \A r \in db.pages \cup db.posts : r.title # "" /\ r.content # ""

\* A store holding a Page and a Post, the Post just updated.
TitleContentNonEmptyWitness ==
  /\ last.op = "update" /\ last.table = "posts" /\ Succeeded
  /\ db.pages # {}
  /\ Has(db, "posts", last.idp)
  /\ Row(db, "posts", last.idp).title = last.payload.title

\* C14 as stated: in every reachable store every stored Media row has a
\* non-empty url and a non-empty type, whichever operation wrote it.
MediaNonEmpty ==
  \A r \in db.media : r.url # "" /\ r.type # ""

\* C15 as stated: CreatePost adds no row to the Media table: whatever the
\* payload's media list names, the Media rows after it are those before it.
CreatePostKeepsMedia ==
  Observed /\ last.op = "create" /\ last.table = "posts" =>
    db.media = last.pre.media

\* C16 as stated: after a successful UpdatePost whose payload lists existing
\* Media, a Get of the Post (its Preload of the association) returns a media
\* set that contains every Media the payload named.
UpdateAssociates ==
  Observed /\ last.op = "update" /\ last.table = "posts" /\ Succeeded
           /\ (\A i \in DOMAIN last.payload.media.elems :
                 Has(last.pre, "media", last.payload.media.elems[i].id)) =>
    \A k \in DOMAIN last.payload.media.elems :
      \E j \in DOMAIN PreloadMedia(db, last.idp).elems :
        PreloadMedia(db, last.idp).elems[j].id
          = last.payload.media.elems[k].id

\* C17 as stated: a CreatePost with media [{id: m}], m the identifier of a
\* stored Media, succeeds and returns a Post whose media has exactly one
\* element, with the id, url and type of the stored row m.
CreateReturnsMedia ==
  Observed /\ last.op = "create" /\ last.table = "posts"
           /\ last.fault = NoFault
           /\ RequiredPost(last.payload)
           /\ Len(last.payload.media.elems) = 1
           /\ Has(last.pre, "media", last.payload.media.elems[1].id) =>
    /\ Succeeded
    /\ Len(last.body.media.elems) = 1
    /\ LET m == Row(last.pre, "media", last.payload.media.elems[1].id)
           e == last.body.media.elems[1]
       IN e.id = m.id /\ e.url = m.url /\ e.type = m.type

\* The Posts a response returns.
ReturnedPosts ==
  IF last.table # "posts" \/ ~Succeeded THEN {}
  ELSE IF last.op = "list"
    THEN {last.body.items[i] : i \in DOMAIN last.body.items}
  ELSE IF last.op \in {"get", "create", "update"} THEN {last.body}
  ELSE {}

\* C18 as stated: a Post without associated Media, returned by List, Get,
\* Create or Update, has an empty sequence as its media, never null.
MediaNeverNull ==
  Observed =>
    \A p \in ReturnedPosts :
      PreloadMedia(db, p.id).elems = <<>> => p.media = Slice(<<>>)

\* C19: List Posts resolves the media of the N posts it returns with exactly
\* one lookup on post_media, keyed by the identifiers of all N posts, however
\* many posts and associations there are, and with none when N = 0; each
\* post then carries exactly the Media it has an association to.
OneRelationshipLookup ==
  Observed /\ last.op = "list" /\ last.table = "posts" /\ Succeeded =>
    LET items == last.body.items
        joins == {i \in DOMAIN last.body.lookups :
                    last.body.lookups[i].table = "post_media"}
    IN /\ Cardinality(joins) = IF Len(items) = 0 THEN 0 ELSE 1
       /\ \A i \in joins :
            last.body.lookups[i].keys
              = {items[k].id : k \in DOMAIN items}
       /\ \A k \in DOMAIN items :
            /\ ~items[k].media.isNil
            /\ {items[k].media.elems[j] : j \in DOMAIN items[k].media.elems}
                 = {r \in db.media : <<items[k].id, r.id>> \in db.post_media}

\* A List of two Posts, one of them with a Media.
OneRelationshipLookupWitness ==
  /\ last.op = "list" /\ last.table = "posts" /\ Succeeded
  /\ Len(last.body.items) = 2
  /\ Len(last.body.lookups) = 1
  /\ \E k \in DOMAIN last.body.items :
       last.body.items[k].media.elems # <<>>

\* sub occurs in text, letter case set aside.
ContainsFold(text, sub) ==
  \E o \in 0..(Len(text) - Len(sub)) :
    \A k \in 1..Len(sub) : Lower(text[o + k]) = Lower(sub[k])

\* C20 as stated: List returns exactly the rows that satisfy every non-empty
\* filter: for Posts the title contains the filter, letter case set aside,
\* and the author equals the filter; for Media the type equals the filter; an
\* empty filter is no filter.
ListFilters ==
  Observed /\ last.op = "list" /\ Succeeded =>
    LET ids == {last.body.items[i].id : i \in DOMAIN last.body.items}
        q == last.payload
    IN /\ Cardinality(ids) = Len(last.body.items)
       /\ last.table = "posts" =>
            ids = {r.id : r \in
                     {x \in db.posts :
                        /\ q.title = ""
                             \/ ContainsFold(Chars(x.title), Chars(q.title))
                        /\ q.author = "" \/ x.author = q.author}}
       /\ last.table = "media" =>
            ids = {r.id : r \in
                     {x \in db.media : q.type = "" \/ x.type = q.type}}

\* The statuses an operation's outcomes map to: the entity or confirmation
\* (200, for Create 201), ValidationError (400), NotFoundError (404) and
\* StorageError (500).
AllowedStatus(op) ==
  CASE op = "list" -> {StatusOK, StatusInternalServerError}
    [] op = "get" -> {StatusOK, StatusNotFound, StatusInternalServerError}
    [] op = "create" ->
         {StatusCreated, StatusBadRequest, StatusInternalServerError}
    [] op \in {"update", "update_raw"} ->
         {StatusOK, StatusNotFound, StatusBadRequest,
          StatusInternalServerError}
    [] op \in {"delete", "delete_raw"} ->
         {StatusOK, StatusNotFound, StatusInternalServerError}

\* C21 as stated: every operation ends in exactly one outcome, the handler
\* writing one response whose status is among those allowed for the
\* operation.
OneAllowedOutcome ==
  Observed => last.written /\ last.status \in AllowedStatus(last.op)

\* C22: every successful Create adds exactly one row to its entity's table,
\* under an identifier no other row of the table holds, the rows it found
\* staying; so do two Creates with identical payloads, which yield two rows
\* with distinct identifiers.
CreateAddsOneRow ==
  /\ \A t \in Tables : \A r, q \in db[t] : r.id = q.id => r = q
  /\ Observed /\ last.op = "create" /\ Succeeded =>
       /\ last.body.id # 0
       /\ ~Has(last.pre, last.table, last.body.id)
       /\ db[last.table] = last.pre[last.table] \cup {BodyRow}
       /\ Cardinality(db[last.table])
            = Cardinality(last.pre[last.table]) + 1

\* A successful Create Media whose payload an earlier Create had sent as
\* well: the row of that one is still stored, under another identifier.
CreateAddsOneRowWitness ==
  /\ last.op = "create" /\ last.table = "media" /\ Succeeded
  /\ Plain(last.payload)
  /\ \E q \in last.pre.media :
       /\ q.url = last.payload.url /\ q.type = last.payload.type
       /\ q.id # last.body.id
       /\ q \in db.media

\* C23 as stated: whatever the value of the id path parameter, a Get answers
\* with the row whose identifier is that value or with NotFoundError, never
\* with a row that has another identifier.  (A storage error on the lookup is
\* the 500 of another claim.)
GetReturnsRequested ==
  Observed /\ last.op = "get" /\ last.fault.kind # "lookup" =>
    \/ last.written /\ last.status = StatusNotFound
    \/ /\ last.written /\ last.status = StatusOK
       /\ Atoi(last.payload.param).ok
       /\ last.body.id = Atoi(last.payload.param).n

ReadOnly ==
  Observed /\ last.op \in {"get", "list"} => db = last.pre

\* A Get of a Post that returned it with its Media: the association rows it
\* read are still stored.
ReadOnlyWitness ==
  /\ last.op = "get" /\ last.table = "posts" /\ Succeeded
  /\ last.body.media.elems # <<>>
  /\ \E m \in Ids : <<last.body.id, m>> \in db.post_media
  /\ db = last.pre

ReferencedDelete ==
  /\ last.op = "delete" /\ last.table = "media"
  /\ Has(last.pre, "media", last.idp)
  /\ Referenced(last.pre, "media", last.idp)

\* C26 as stated: DeleteMedia on a Media that Posts still reference succeeds
\* (it is not rejected) on a storage engine that is otherwise healthy,
\* removes the Media row and nothing else, the association rows that
\* reference it included.
ReferencedDeleteSucceeds ==
  Observed /\ ReferencedDelete
           /\ last.fault.kind \in {"none", "constraint"} =>
    /\ last.written /\ last.status = StatusOK
    /\ ~Has(db, "media", last.idp)
    /\ Others("media", last.idp)
    /\ Same({"pages", "posts", "post_media"})

\* C26, amended: DeleteMedia never looks at the association rows: it reads
\* and deletes the Media row alone.  Where the schema lets the DELETE of a
\* referenced row through it answers success, the Media row gone and every
\* association row that names it still stored; where a foreign key of
\* post_media rejects the DELETE it rolls back and answers StorageError, the
\* store unchanged.
ReferencedDeleteUnchecked ==
  Observed /\ ReferencedDelete
           /\ last.fault.kind \in {"none", "constraint"} =>
    IF last.fault = NoFault
      THEN /\ last.written /\ last.status = StatusOK
           /\ last.calls = CommitCalls("Delete")
           /\ ~Has(db, "media", last.idp)
           /\ Others("media", last.idp)
           /\ Same({"pages", "posts", "post_media"})
      ELSE /\ last.written /\ last.status = StatusInternalServerError
           /\ last.calls = StmtErrorCalls("Delete")
           /\ db = last.pre

\* A successful Delete of a Media a Post references: the association row
\* stays, naming a Media that is stored no more.
ReferencedDeleteUncheckedWitness ==
  /\ ReferencedDelete
  /\ last.status = StatusOK
  /\ ~Has(db, "media", last.idp)
  /\ \E j \in db.post_media : j[2] = last.idp /\ Has(db, "posts", j[1])

\* C27 as stated: an association row (post_id, media_id) is created only for
\* a media_id that a stored Media row had before the request; a CreatePost
\* that names a Media identifier without a row creates no association to it.
AssociatesExistingOnly ==
  Observed /\ last.op = "create" /\ last.table = "posts" =>
    \A j \in db.post_media \ last.pre.post_media :
      Has(last.pre, "media", j[2])

\* C28 as stated: Media has an Update with the protocol of Page and Post: on
\* an identifier without a row it answers NotFoundError; on a stored Media it
\* merges the payload's non-empty url and type into the row, saves it in a
\* transaction and returns it.
MediaUpdateProtocol ==
  Observed /\ last.op = "update" /\ last.table = "media"
           /\ last.fault = NoFault =>
    IF ~Has(last.pre, "media", last.idp)
      THEN last.written /\ last.status = StatusNotFound /\ db = last.pre
      ELSE /\ Succeeded
           /\ last.calls = CommitCalls("Save")
           /\ Has(db, "media", last.idp)
           /\ last.body = Row(db, "media", last.idp)
           /\ Merged(last.body.url,
                     Row(last.pre, "media", last.idp).url, last.payload.url)
           /\ Merged(last.body.type,
                     Row(last.pre, "media", last.idp).type, last.payload.type)

\* C29 as stated: when an Update and a Delete of one identifier run
\* concurrently, the Update's lookup before the Delete commits and its Save
\* after, then once the Delete has answered success and both requests have
\* finished the row is not stored: the Save re-inserts nothing a committed
\* Delete removed.
NoResurrection ==
  Observed /\ last.op = "update" /\ InFlight = {}
           /\ <<last.table, last.idp>> \in gone =>
    ~Has(db, last.table, last.idp)

\* C30 as stated: of two concurrent Deletes of one stored identifier only one
\* answers success: the one whose DELETE runs when the other has removed the
\* row answers NotFoundError.
SecondDeleteNotFound ==
  Observed /\ last.op = "delete" /\ last.fault = NoFault
           /\ ~Has(last.pre, last.table, last.idp) =>
    last.written /\ last.status = StatusNotFound

\* The fields an Update merges.
Mutable(t) ==
  IF t = "posts" THEN {"title", "content", "author"} ELSE {"title", "content"}

\* C31 as stated: two concurrent successful Updates of one identifier are
\* serializable: the row stored when the second has saved is the one that
\* running the two one after the other, in one order or the other, leaves,
\* so that no field either of them set is lost.  (Read at the Update that
\* saves second: `old` is the row its lookup read, the row in `pre` the one
\* the first Update saved.)
UpdatesSerializable ==
  Observed /\ last.op = "update" /\ Succeeded
           /\ Has(last.pre, last.table, last.idp)
           /\ Has(db, last.table, last.idp) =>
    LET new == Row(db, last.table, last.idp)
        mid == Row(last.pre, last.table, last.idp)
        orig == last.old
        upd == last.payload
        \* the first Update, then this one
        FirstThenThis ==
          \A f \in Mutable(last.table) : new[f] = Patch(mid[f], upd[f])
        \* this one, then the first: a field the first changed holds the
        \* first's value; one it left as it was, the first's value (the same
        \* as before) or this one's
        ThisThenFirst ==
          \A f \in Mutable(last.table) :
            IF mid[f] # orig[f]
              THEN new[f] = mid[f]
              ELSE new[f] \in {orig[f], Patch(orig[f], upd[f])}
    IN FirstThenThis \/ ThisThenFirst

\* Every call the request made on its transaction, in order.
AllCalls == last.calls \o last.after

\* C32 as stated: a transaction a handler has opened is finished exactly
\* once, by one Commit or one Rollback, never both, and neither is called on
\* a transaction that a Commit or a Rollback has finished already, the path
\* of a fault after Commit, while the response is written, included.
FinishedOnce ==
  Observed /\ Opened =>
    LET ends == {i \in DOMAIN AllCalls :
                   AllCalls[i].name \in {"Commit", "Rollback"}}
    IN /\ Cardinality(ends) = 1
       /\ \A i \in ends : TxState(SubSeq(AllCalls, 1, i - 1)) = "open"

\* C33 as stated: a Create, Update or Delete whose transaction was rolled
\* back, after a failed statement or after a panic recovered inside the
\* transactional block, answers StorageError (500): it never completes with
\* a success status.
RolledBackAnswersError ==
  Observed /\ last.op \in {"create", "update", "delete"}
           /\ TxState(last.calls) = "rolledback" =>
    last.written /\ last.status = StatusInternalServerError

\* C34: when Begin fails, its error unchecked by the handler, the Create,
\* Update or Delete answers StorageError (500), never success, and persists
\* nothing: the call on the handle returns Begin's error and the handler
\* takes its error branch.
BeginFailure ==
  Observed /\ last.fault.kind = "begin" =>
    /\ last.written /\ last.status = StatusInternalServerError
    /\ last.calls # <<>> /\ last.calls[1] = Call("Begin", FALSE)
    /\ \A i \in DOMAIN last.calls : ~last.calls[i].ok
    /\ db = last.pre

\* An Update of a stored row whose Begin failed: 500, the row as it was.
BeginFailureWitness ==
  /\ last.op = "update" /\ last.fault.kind = "begin"
  /\ Has(last.pre, last.table, last.idp)
  /\ last.status = StatusInternalServerError
  /\ Row(db, last.table, last.idp) = Row(last.pre, last.table, last.idp)

\* The identifiers the path parameter of the request names: the number it
\* spells, and none when it spells no number.
Named == IF last.op \in {"update", "delete"} THEN {last.idp} ELSE {}

\* C35 as stated: an Update changes only the row whose identifier is its id
\* parameter.  That row keeps its identifier whatever id the payload carries,
\* and every other row of every table, the association rows included, is as
\* it was.
UpdateFrame ==
  Observed /\ last.op \in {"update", "update_raw"} =>
    /\ \A t \in Tables :
         {q \in db[t] : t # last.table \/ q.id \notin Named}
           = {q \in last.pre[t] : t # last.table \/ q.id \notin Named}
    /\ {q.id : q \in db[last.table]} = {q.id : q \in last.pre[last.table]}
    /\ db.post_media = last.pre.post_media

\* C36 as stated: a Delete removes at most the row whose identifier equals
\* its path parameter, whatever the parameter is, a number or not; one that
\* answers success has removed exactly that row, and the other rows of the
\* table and the other tables are as they were.
DeleteFrame ==
  Observed /\ last.op \in {"delete", "delete_raw"} =>
    /\ \A t \in Tables :
         {q \in db[t] : t # last.table \/ q.id \notin Named}
           = {q \in last.pre[t] : t # last.table \/ q.id \notin Named}
    /\ last.written /\ last.status = StatusOK =>
         /\ \E q \in last.pre[last.table] : q.id \in Named
         /\ \A q \in db[last.table] : q.id \notin Named

\* C37 as stated: once DeletePost has answered success no association row
\* naming the deleted post is left, and the Media rows it was associated
\* with are as they were.
PostDeleteClearsJoins ==
  Observed /\ last.op = "delete" /\ last.table = "posts"
           /\ last.written /\ last.status = StatusOK =>
    /\ \A j \in db.post_media : j[1] # last.idp
    /\ db.media = last.pre.media

\* C38: a Create leaves every row it found as it was, whether it succeeds
\* or fails: a payload whose id is that of a stored row is a duplicate key
\* and inserts nothing, and a Media named in the media list of a CreatePost
\* that is already stored keeps its fields (ON CONFLICT DO NOTHING).
CreateKeepsRows ==
  Observed /\ last.op = "create" =>
    /\ \A t \in Tables : last.pre[t] \subseteq db[t]
    /\ last.pre.post_media \subseteq db.post_media

\* A CreatePost that succeeded with a media list naming a stored Media whose
\* url is set: the Media row is in the store as it was.
CreateKeepsRowsWitness ==
  /\ last.op = "create" /\ last.table = "posts" /\ Succeeded
  /\ \E m \in last.pre.media :
       /\ m.url # ""
       /\ \E i \in DOMAIN last.payload.media.elems :
            last.payload.media.elems[i].id = m.id
       /\ m \in db.media

\* A Create whose payload carries the id of a stored row: it fails and the
\* row is as it was.
CreateDuplicateKeeps ==
  /\ last.op = "create" /\ ~Succeeded
  /\ last.payload.id # 0
  /\ Has(last.pre, last.table, last.payload.id)
  /\ Row(db, last.table, last.payload.id)
       = Row(last.pre, last.table, last.payload.id)

\* C39 as stated: List Pages answers with the Pages whose title contains
\* the title filter, letter case set aside, for every title and author
\* query; an author value does not make the query fail.  The query is taken
\* to reach the database: a storage error on it is set aside.
PagesListSucceeds ==
  Observed /\ last.op = "list" /\ last.table = "pages"
           /\ last.fault = NoFault =>
    /\ last.written /\ last.status = StatusOK
    /\ {last.body.items[i] : i \in DOMAIN last.body.items}
         = {x \in db.pages :
              \/ last.payload.title = ""
              \/ ContainsFold(Chars(x.title), Chars(last.payload.title))}

====
